---- MODULE Spec2Model ----
(***************************************************************************)
(* A model of the smap field-merge engine: the tag parser (tag.go), the    *)
(* handle validation and the field loop of Merge, the path resolver        *)
(* lookUpField and the value selection of mergeField.                      *)
(*                                                                         *)
(* Go strings that hold tags are sequences of symbols.  A symbol is one of *)
(* the separators ".", "|", ",", the blank " ", or an atom: a non-empty    *)
(* run of identifier characters such as "EV" or "skipzero".  A Go string   *)
(* without separators and blanks that names a field, key or option is the  *)
(* one-symbol sequence <<atom>>.                                           *)
(***************************************************************************)
EXTENDS Integers, Sequences, FiniteSets, TLC

VARIABLES
    dstT,     \* name of the destination struct type of the caller's value
    dst,      \* the caller's destination struct: its field values, in declaration order
    dstArg,   \* Merge's dst argument of the call in progress: which handle it is
    srcArg,   \* Merge's src argument of the call in progress
    pc,       \* "idle" | "fields" | "done": position of the Merge call
    i,        \* mergeFields' loop index (1-based)
    err,      \* the error the last Merge call returned
    prevErr,  \* the error the Merge call before it returned
    pre,      \* the destination as it was when the call in progress began
    calls,    \* number of Merge calls begun so far
    rawTag,   \* mergeFields' rawTag / newSTag's argument
    tagRes,   \* newSTag's result for rawTag: [err, tag]
    hydrated, \* the fields for which the call in progress invoked vtypes.Hydrate
    dst2,     \* a second caller's destination struct, of the same type
    pc2,      \* "none" | "fields" | "done": position of the Merge call on dst2
    i2,       \* mergeFields' loop index in the call on dst2
    err2,     \* the error the call on dst2 returned
    pre2,     \* dst2 as it was when the call on it began
    lookPath, \* lookUpField's pathParts when it is called on its own
    lookRes   \* what that call of lookUpField returned: [val, err]

\* The variables of the call on the second destination.
second == <<dst2, pc2, i2, err2, pre2>>

\* The variables of a call of lookUpField on its own.
look == <<lookPath, lookRes>>

vars == <<dstT, dst, dstArg, srcArg, pc, i, err, prevErr, pre, calls, rawTag, tagRes,
          hydrated, dst2, pc2, i2, err2, pre2, lookPath, lookRes>>

\* Number of Merge calls one behaviour makes on the same destination.
MaxCalls == 2

\* Longest tag, in symbols, that the parser specification enumerates.
MaxTagLen == 4

\* Longest path, in segments, that the resolver specification enumerates.
MaxPathLen == 3

-----------------------------------------------------------------------------
(* Strings *)

\* strings.Split(s, sep) for a one-symbol separator.
RECURSIVE Split(_, _)
Split(s, sep) ==
    IF \A k \in 1..Len(s) : s[k] # sep
    THEN <<s>>
    ELSE LET k == CHOOSE k \in 1..Len(s) :
                     s[k] = sep /\ \A j \in 1..(k - 1) : s[j] # sep
         IN  <<SubSeq(s, 1, k - 1)>> \o Split(SubSeq(s, k + 1, Len(s)), sep)

\* strings.SplitN(s, sep, 2): cut at the first separator only.
SplitN2(s, sep) ==
    IF \A k \in 1..Len(s) : s[k] # sep
    THEN <<s>>
    ELSE LET k == CHOOSE k \in 1..Len(s) :
                     s[k] = sep /\ \A j \in 1..(k - 1) : s[j] # sep
         IN  <<SubSeq(s, 1, k - 1), SubSeq(s, k + 1, Len(s))>>

\* strings.TrimSpace(s): drop the leading and the trailing blanks.
RECURSIVE TrimSpace(_)
TrimSpace(s) ==
    IF s = <<>> THEN s
    ELSE IF Head(s) = " " THEN TrimSpace(Tail(s))
    ELSE IF s[Len(s)] = " " THEN TrimSpace(SubSeq(s, 1, Len(s) - 1))
    ELSE s

\* strings.Join(ss, sep).
RECURSIVE Join(_, _)
Join(ss, sep) ==
    IF ss = <<>> THEN <<>>
    ELSE IF Len(ss) = 1 THEN ss[1]
    ELSE ss[1] \o <<sep>> \o Join(Tail(ss), sep)

-----------------------------------------------------------------------------
(* tag.go *)

\* tagPathParts.String
PathPartsString(p) == Join(p, ".")

\* tagPathsParts.String
PathsPartsString(p) == Join([k \in 1..Len(p) |-> PathPartsString(p[k])], "|")

\* sTag.String
STagString(t) ==
    IF Len(t.opts) = 0
    THEN PathsPartsString(t.pathsParts)
    ELSE PathsPartsString(t.pathsParts) \o <<",">> \o Join(t.opts, ",")

\* A HasHydrate that finds the option in every tag.
HasHydrateAlways(t) == TRUE

\* sTag.HasHydrate
HasHydrate(t) == \E k \in 1..Len(t.opts) : t.opts[k] = <<"hydrate">>

\* A HasSkipZero that never finds the option.
HasSkipZeroNever(t) == FALSE

\* sTag.HasSkipZero
HasSkipZero(t) == \E k \in 1..Len(t.opts) : t.opts[k] = <<"skipzero">>

\* The nil *sTag that newSTag returns with an error.
NilTag == [pathsParts |-> <<>>, opts |-> <<>>, isNil |-> TRUE]

\* newSTag's loop over the "|"-separated paths: the alternatives collected
\* so far in acc; an empty segment ends the loop with ErrTagInvalid.
RECURSIVE ParsePaths(_, _)
ParsePaths(paths, acc) ==
    IF paths = <<>> THEN [err |-> "nil", pathsParts |-> acc]
    ELSE IF Head(paths) = <<>> THEN ParsePaths(Tail(paths), acc)
    ELSE LET segments == Split(Head(paths), ".")
         IN  IF \E k \in 1..Len(segments) : segments[k] = <<>>
             THEN [err |-> "ErrTagInvalid", pathsParts |-> <<>>]
             ELSE ParsePaths(Tail(paths), Append(acc, segments))

\* newSTag's options: each option trimmed; an empty one is ErrTagInvalid.
ParseOpts(optStr) ==
    LET opts == Split(TrimSpace(optStr), ",")
        trimmed == [k \in 1..Len(opts) |-> TrimSpace(opts[k])]
    IN  IF \E k \in 1..Len(trimmed) : trimmed[k] = <<>>
        THEN [err |-> "ErrTagInvalid", opts |-> <<>>]
        ELSE [err |-> "nil", opts |-> trimmed]

\* A newSTag that drops an empty segment instead of rejecting the path.
newSTagLenient(tag) ==
    LET parts == SplitN2(tag, ",")
        paths == Split(TrimSpace(parts[1]), "|")
        keep(p) == SelectSeq(Split(p, "."), LAMBDA s : s # <<>>)
        alts == SelectSeq([k \in 1..Len(paths) |-> keep(paths[k])],
                          LAMBDA p : p # <<>>)
        o == IF Len(parts) > 1 THEN ParseOpts(parts[2])
             ELSE [err |-> "nil", opts |-> <<>>]
    IN  IF o.err # "nil" THEN [err |-> o.err, tag |-> NilTag]
        ELSE [err |-> "nil",
              tag |-> [pathsParts |-> alts, opts |-> o.opts, isNil |-> FALSE]]

\* A newSTag that prepends each alternative instead of appending it.
newSTagReversed(tag) ==
    LET parts == SplitN2(tag, ",")
        p == ParsePaths(Split(TrimSpace(parts[1]), "|"), <<>>)
        rev == [k \in 1..Len(p.pathsParts) |->
                    p.pathsParts[Len(p.pathsParts) + 1 - k]]
        o == IF Len(parts) > 1 THEN ParseOpts(parts[2])
             ELSE [err |-> "nil", opts |-> <<>>]
    IN  IF p.err # "nil" THEN [err |-> p.err, tag |-> NilTag]
        ELSE IF Len(p.pathsParts) = 0 THEN [err |-> "ErrTagEmpty", tag |-> NilTag]
        ELSE IF o.err # "nil" THEN [err |-> o.err, tag |-> NilTag]
        ELSE [err |-> "nil",
              tag |-> [pathsParts |-> rev, opts |-> o.opts, isNil |-> FALSE]]

\* A newSTag for which an empty candidate between "|" is a malformed path.
newSTagStrict(tag) ==
    LET parts == SplitN2(tag, ",")
        paths == Split(TrimSpace(parts[1]), "|")
        p == ParsePaths(paths, <<>>)
        o == IF Len(parts) > 1 THEN ParseOpts(parts[2])
             ELSE [err |-> "nil", opts |-> <<>>]
    IN  IF Len(paths) > 1 /\ \E k \in 1..Len(paths) : paths[k] = <<>>
        THEN [err |-> "ErrTagInvalid", tag |-> NilTag]
        ELSE IF p.err # "nil" THEN [err |-> p.err, tag |-> NilTag]
        ELSE IF Len(p.pathsParts) = 0 THEN [err |-> "ErrTagEmpty", tag |-> NilTag]
        ELSE IF o.err # "nil" THEN [err |-> o.err, tag |-> NilTag]
        ELSE [err |-> "nil",
              tag |-> [pathsParts |-> p.pathsParts, opts |-> o.opts, isNil |-> FALSE]]

\* newSTag
newSTag(tag) ==
    LET parts == SplitN2(tag, ",")
        p == ParsePaths(Split(TrimSpace(parts[1]), "|"), <<>>)
        o == IF Len(parts) > 1 THEN ParseOpts(parts[2])
             ELSE [err |-> "nil", opts |-> <<>>]
    IN  IF p.err # "nil" THEN [err |-> p.err, tag |-> NilTag]
        ELSE IF Len(p.pathsParts) = 0 THEN [err |-> "ErrTagEmpty", tag |-> NilTag]
        ELSE IF o.err # "nil" THEN [err |-> o.err, tag |-> NilTag]
        ELSE [err |-> "nil",
              tag |-> [pathsParts |-> p.pathsParts, opts |-> o.opts, isNil |-> FALSE]]

-----------------------------------------------------------------------------
(* reflect.Value: the values Merge inspects *)

\* The zero reflect.Value (IsValid() is false).
Invalid == [kind |-> "invalid"]

IsValid(v) == v.kind # "invalid"

StrV(s) == [kind |-> "string", type |-> "string", s |-> s]

IntV(n) == [kind |-> "int", type |-> "int", n |-> n]

\* A non-nil pointer of type t to e, and the nil pointer of type t.
PtrV(t, e) == [kind |-> "ptr", type |-> t, isNil |-> FALSE, elem |-> e]

NilPtrV(t) == [kind |-> "ptr", type |-> t, isNil |-> TRUE]

\* A struct: fields is a record from field names to values; methods is the
\* set of its zero-argument methods, each [name, ptrRecv, out, err].
StructV(t, f, m) == [kind |-> "struct", type |-> t, fields |-> f, methods |-> m]

\* A map: entries is a set of [k, v]; a nil map has no entries.
MapV(t, keyKind, isNil, entries) ==
    [kind |-> "map", type |-> t, keyKind |-> keyKind, isNil |-> isNil,
     entries |-> entries]

\* A slice: elems is the sequence of its elements.
SliceV(t, isNil, elems) ==
    [kind |-> "slice", type |-> t, isNil |-> isNil, elems |-> elems]

\* Field names that are not exported (lower-case initial).
Unexported == {"url"}

\* reflect.Value.IsZero / DeepEqual with reflect.Zero of the value's type.
RECURSIVE IsZeroV(_)
IsZeroV(v) ==
    CASE v.kind = "string" -> v.s = ""
      [] v.kind = "int"    -> v.n = 0
      [] v.kind = "ptr"    -> v.isNil
      [] v.kind = "map"    -> v.isNil
      [] v.kind = "slice"  -> v.isNil
      [] v.kind = "struct" -> \A f \in DOMAIN v.fields : IsZeroV(v.fields[f])
      [] OTHER             -> FALSE

\* strconv.Atoi on a path segment: the decimal atoms of the model.
Digits == {<<"0">>, <<"1">>, <<"2">>}

Atoi(seg) == CASE seg = <<"0">> -> 0 [] seg = <<"1">> -> 1 [] seg = <<"2">> -> 2

-----------------------------------------------------------------------------
(* lookUpField *)

\* The outcome of one resolution: a value and an error name ("nil" for none).
Found(v) == [val |-> v, err |-> "nil"]

Failed(e) == [val |-> Invalid, err |-> e]

\* The zero-argument method named by part on the value orig, if any: a
\* pointer-receiver method is in the method set of a pointer only.
MethodsOf(orig, part) ==
    LET s == IF orig.kind = "ptr" THEN orig.elem ELSE orig
    IN  {m \in s.methods : /\ part = <<m.name>>
                           /\ (m.ptrRecv => orig.kind = "ptr")}

\* A traversal for which an index that is no number or is out of range is a
\* path that was not found.
RECURSIVE WalkIndexFails(_, _, _)
WalkIndexFails(current, parts, k) ==
    IF k > Len(parts)
    THEN \* the leaf: one pointer level is removed
         IF current.kind = "ptr" /\ ~current.isNil
         THEN Found(current.elem) ELSE Found(current)
    ELSE
    IF current.kind = "ptr" /\ current.isNil THEN Failed("errKeepLooking")
    ELSE
    LET part == parts[k]
        cur  == IF current.kind = "ptr" THEN current.elem ELSE current
    IN  CASE cur.kind = "struct" ->
               IF /\ Len(part) = 1
                  /\ part[1] \in DOMAIN cur.fields
                  /\ part[1] \notin Unexported
               THEN WalkIndexFails(cur.fields[part[1]], parts, k + 1)
               ELSE IF MethodsOf(current, part) # {}
               THEN LET m == CHOOSE m \in MethodsOf(current, part) : TRUE
                    IN  IF m.err # "nil" THEN Failed(m.err) ELSE Found(m.out)
               ELSE IF k = Len(parts) THEN Failed("ErrTagPathNotFound")
               ELSE Failed("errKeepLooking")
          [] cur.kind = "map" ->
               IF cur.keyKind = "string"
               THEN IF \E e \in cur.entries : <<e.k>> = part
                    THEN WalkIndexFails((CHOOSE e \in cur.entries : <<e.k>> = part).v,
                              parts, k + 1)
                    ELSE Failed("errKeepLooking")
               ELSE IF cur.keyKind = "int"
               THEN IF part \notin Digits THEN Failed("ErrTagPathInvalidKeyType")
                    ELSE IF \E e \in cur.entries : e.k = Atoi(part)
                    THEN WalkIndexFails((CHOOSE e \in cur.entries : e.k = Atoi(part)).v,
                              parts, k + 1)
                    ELSE Failed("errKeepLooking")
               ELSE Failed("ErrTagPathInvalidKeyType")
          [] cur.kind = "slice" ->
               IF part \in Digits /\ Atoi(part) < Len(cur.elems)
               THEN WalkIndexFails(cur.elems[Atoi(part) + 1], parts, k + 1)
               ELSE Failed("ErrTagPathNotFound")
          [] OTHER -> Failed("errKeepLooking")

\* The traversal of lookUpField from segment k on, current being the value
\* reached so far.
RECURSIVE Walk(_, _, _)
Walk(current, parts, k) ==
    IF k > Len(parts)
    THEN \* the leaf: one pointer level is removed
         IF current.kind = "ptr" /\ ~current.isNil
         THEN Found(current.elem) ELSE Found(current)
    ELSE
    IF current.kind = "ptr" /\ current.isNil THEN Failed("errKeepLooking")
    ELSE
    LET part == parts[k]
        cur  == IF current.kind = "ptr" THEN current.elem ELSE current
    IN  CASE cur.kind = "struct" ->
               IF /\ Len(part) = 1
                  /\ part[1] \in DOMAIN cur.fields
                  /\ part[1] \notin Unexported
               THEN Walk(cur.fields[part[1]], parts, k + 1)
               ELSE IF MethodsOf(current, part) # {}
               THEN LET m == CHOOSE m \in MethodsOf(current, part) : TRUE
                    IN  IF m.err # "nil" THEN Failed(m.err) ELSE Found(m.out)
               ELSE IF k = Len(parts) THEN Failed("ErrTagPathNotFound")
               ELSE Failed("errKeepLooking")
          [] cur.kind = "map" ->
               IF cur.keyKind = "string"
               THEN IF \E e \in cur.entries : <<e.k>> = part
                    THEN Walk((CHOOSE e \in cur.entries : <<e.k>> = part).v,
                              parts, k + 1)
                    ELSE Failed("errKeepLooking")
               ELSE IF cur.keyKind = "int"
               THEN IF part \notin Digits THEN Failed("ErrTagPathInvalidKeyType")
                    ELSE IF \E e \in cur.entries : e.k = Atoi(part)
                    THEN Walk((CHOOSE e \in cur.entries : e.k = Atoi(part)).v,
                              parts, k + 1)
                    ELSE Failed("errKeepLooking")
               ELSE Failed("ErrTagPathInvalidKeyType")
          [] cur.kind = "slice" ->
               IF part \in Digits /\ Atoi(part) < Len(cur.elems)
               THEN Walk(cur.elems[Atoi(part) + 1], parts, k + 1)
               ELSE Failed("errKeepLooking")
          [] OTHER -> Failed("errKeepLooking")

\* A lookUpField for which a nil pointer on the path is a terminal error.
lookUpFieldNilFails(srcVal, pathParts) ==
    LET r == Walk(srcVal, pathParts, 1)
    IN  IF Len(pathParts) = 0 THEN Failed("ErrTagPathEmpty")
        ELSE IF r.err = "errKeepLooking" THEN Failed("ErrTagPathNotFound")
        ELSE r

\* A lookUpField that reads a missing key as the map's zero element, the way
\* a Go map index expression does.
lookUpFieldKeyZero(srcVal, pathParts) ==
    LET r  == Walk(srcVal, pathParts, 1)
        pr == Walk(srcVal, SubSeq(pathParts, 1, Len(pathParts) - 1), 1)
    IN  IF Len(pathParts) = 0 THEN Failed("ErrTagPathEmpty")
        ELSE IF /\ r.err = "errKeepLooking"
                /\ Len(pathParts) >= 2
                /\ pr.err = "nil"
                /\ pr.val.kind = "map"
        THEN Found(StrV(""))
        ELSE r

\* A lookUpField that takes an accessor's error for "not applicable".
lookUpFieldAccessorSkips(srcVal, pathParts) ==
    LET r == Walk(srcVal, pathParts, 1)
    IN  IF Len(pathParts) = 0 THEN Failed("ErrTagPathEmpty")
        ELSE IF r.err = "method error" THEN Failed("errKeepLooking")
        ELSE r

\* A lookUpField for which a name that is no member is never more than
\* "not applicable", the final segment's too.
lookUpFieldMissSkips(srcVal, pathParts) ==
    LET r == Walk(srcVal, pathParts, 1)
    IN  IF Len(pathParts) = 0 THEN Failed("ErrTagPathEmpty")
        ELSE IF r.err = "ErrTagPathNotFound" THEN Failed("errKeepLooking")
        ELSE r

\* lookUpField on a path without segments, as lookUpField was before
\* ErrTagPathEmpty: the loop over the segments does nothing and the source
\* is returned, one pointer level removed.
lookUpEmptyIdentity(srcVal) ==
    IF srcVal.kind = "ptr" /\ ~srcVal.isNil THEN Found(srcVal.elem)
    ELSE Found(srcVal)

\* lookUpField on a path without segments: ErrTagPathEmpty and no value.
lookUpEmpty(srcVal) == Failed("ErrTagPathEmpty")

\* lookUpField
lookUpField(srcVal, pathParts) ==
    IF Len(pathParts) = 0 THEN lookUpEmpty(srcVal)
    ELSE Walk(srcVal, pathParts, 1)

-----------------------------------------------------------------------------
(* errors.go *)

\* The nil error.
NoErr ==
    [child |-> "nil", wrapped |-> FALSE, TagValue |-> <<>>,
     DstTypeName |-> "", SrcTypeName |-> ""]

\* A sentinel error returned as it is.
Sentinel(e) ==
    [child |-> e, wrapped |-> FALSE, TagValue |-> <<>>,
     DstTypeName |-> "", SrcTypeName |-> ""]

\* NewMergeFieldError
NewMergeFieldError(child, tagValue, dstTypeName, srcTypeName) ==
    [child |-> child, wrapped |-> TRUE, TagValue |-> tagValue,
     DstTypeName |-> dstTypeName, SrcTypeName |-> srcTypeName]

\* errors.Is(e, target): the sentinel itself, or a MergeFieldError whose
\* Unwrap gives it.
ErrorsIs(e, target) == e.child = target

-----------------------------------------------------------------------------
(* Merge: handle validation *)

\* makeDstValue
makeDstValue(d) ==
    IF d.kind # "ptr" \/ d.isNil THEN Failed("ErrDstInvalid")
    ELSE IF d.elem.kind # "struct" THEN Failed("ErrDstInvalid")
    ELSE Found(d.elem)

\* A makeSrcValue without the check that what remains is a struct.
makeSrcValueNoKindCheck(s) ==
    IF s.kind = "ptr" /\ s.isNil THEN Failed("ErrSrcInvalid")
    ELSE Found(IF s.kind = "ptr" THEN s.elem ELSE s)

\* makeSrcValue
makeSrcValue(s) ==
    IF s.kind = "ptr" /\ s.isNil THEN Failed("ErrSrcInvalid")
    ELSE LET srcVal == IF s.kind = "ptr" THEN s.elem ELSE s
         IN  IF srcVal.kind # "struct" THEN Failed("ErrSrcInvalid")
             ELSE Found(srcVal)

-----------------------------------------------------------------------------
(* mergeField *)

\* vtypes.Hydrate(new(dstType), text): the conversions of the model's texts.
Hydrate(dstType, text) ==
    CASE dstType = "string"               -> Found(StrV(text))
      [] dstType = "int" /\ text = "42"   -> Found(IntV(42))
      [] OTHER                            -> Failed("ErrHydrate")

\* An AssignableTo that lets every type through.
AssignableToAny(srcType, dstType) == TRUE

\* reflect.Type.AssignableTo between the concrete types of the model.
AssignableTo(srcType, dstType) == srcType = dstType

\* A selection that returns every error of lookUpField, errKeepLooking too.
RECURSIVE SelectEveryError(_, _, _, _)
SelectEveryError(srcVal, tag, k, finalValue) ==
    IF k > Len(tag.pathsParts)
    THEN [err |-> "nil", path |-> <<>>, val |-> finalValue]
    ELSE LET r == lookUpField(srcVal, tag.pathsParts[k])
         IN  IF r.err # "nil"
             THEN [err |-> r.err, path |-> tag.pathsParts[k], val |-> Invalid]
             ELSE IF ~IsValid(r.val) \/ (r.val.kind = "ptr" /\ r.val.isNil)
             THEN SelectEveryError(srcVal, tag, k + 1, finalValue)
             ELSE IF HasSkipZero(tag) /\ IsZeroV(r.val)
             THEN SelectEveryError(srcVal, tag, k + 1, finalValue)
             ELSE SelectEveryError(srcVal, tag, k + 1, r.val)

\* A selection that puts up with a terminal error when a later alternative
\* yields a candidate: the error is returned only if none does.
RECURSIVE SelectForgives(_, _, _, _)
SelectForgives(srcVal, tag, k, finalValue) ==
    IF k > Len(tag.pathsParts)
    THEN [err |-> "nil", path |-> <<>>, val |-> finalValue]
    ELSE LET r == lookUpField(srcVal, tag.pathsParts[k])
             rest == SelectForgives(srcVal, tag, k + 1, Invalid)
         IN  IF r.err = "errKeepLooking"
             THEN SelectForgives(srcVal, tag, k + 1, finalValue)
             ELSE IF r.err # "nil"
             THEN IF rest.err = "nil" /\ IsValid(rest.val) THEN rest
                  ELSE [err |-> r.err, path |-> tag.pathsParts[k], val |-> Invalid]
             ELSE IF ~IsValid(r.val) \/ (r.val.kind = "ptr" /\ r.val.isNil)
             THEN SelectForgives(srcVal, tag, k + 1, finalValue)
             ELSE IF HasSkipZero(tag) /\ IsZeroV(r.val)
             THEN SelectForgives(srcVal, tag, k + 1, finalValue)
             ELSE SelectForgives(srcVal, tag, k + 1, r.val)

\* mergeField's loop over the alternatives from index k on, finalValue being
\* the candidate adopted so far: [err, path, val].
RECURSIVE Select(_, _, _, _)
Select(srcVal, tag, k, finalValue) ==
    IF k > Len(tag.pathsParts)
    THEN [err |-> "nil", path |-> <<>>, val |-> finalValue]
    ELSE LET r == lookUpField(srcVal, tag.pathsParts[k])
         IN  IF r.err = "errKeepLooking"
             THEN Select(srcVal, tag, k + 1, finalValue)
             ELSE IF r.err # "nil"
             THEN [err |-> r.err, path |-> tag.pathsParts[k], val |-> Invalid]
             ELSE IF ~IsValid(r.val)
             THEN Select(srcVal, tag, k + 1, finalValue)
             ELSE IF r.val.kind = "ptr" /\ r.val.isNil
             THEN Select(srcVal, tag, k + 1, finalValue)
             ELSE IF HasSkipZero(tag) /\ IsZeroV(r.val)
             THEN Select(srcVal, tag, k + 1, finalValue)
             ELSE Select(srcVal, tag, k + 1, r.val)

\* What mergeField did with the outcome of its loop before a total miss was
\* let through: without a candidate it returns ErrTagInvalid.
assignSelectedMissFails(dstField, tag, sel) ==
    IF sel.err # "nil"
    THEN [err |-> NewMergeFieldError(sel.err, PathPartsString(sel.path),
                                     dstField.type, ""),
          field |-> dstField, hydrated |-> FALSE]
    ELSE IF ~IsValid(sel.val)
    THEN [err |-> NewMergeFieldError("ErrTagInvalid", STagString(tag),
                                     dstField.type, ""),
          field |-> dstField, hydrated |-> FALSE]
    ELSE IF ~AssignableTo(sel.val.type, dstField.type)
    THEN [err |-> NewMergeFieldError("ErrFieldTypesIncompatible",
                                     STagString(tag), dstField.type,
                                     sel.val.type),
          field |-> dstField, hydrated |-> FALSE]
    ELSE [err |-> NoErr, field |-> sel.val, hydrated |-> FALSE]

\* What mergeField does with the outcome sel of its loop over the
\* alternatives: a terminal error is wrapped; without a candidate the field
\* is left as it is; a candidate is hydrated if the tag says so and it is a
\* string, checked against the field's type and assigned.
assignSelected(dstField, tag, sel) ==
    IF sel.err # "nil"
    THEN [err |-> NewMergeFieldError(sel.err, PathPartsString(sel.path),
                                     dstField.type, ""),
          field |-> dstField, hydrated |-> FALSE]
    ELSE IF ~IsValid(sel.val)
    THEN \* no candidate: not an error, the field is left as it is (an
         \* unset pointer field stays unset)
         [err |-> NoErr, field |-> dstField, hydrated |-> FALSE]
    ELSE
    LET hydrating == HasHydrate(tag) /\ sel.val.kind = "string"
        h == IF hydrating THEN Hydrate(dstField.type, sel.val.s)
             ELSE Found(sel.val)
    IN  IF h.err # "nil"
        THEN [err |-> NewMergeFieldError(h.err, STagString(tag),
                                         dstField.type, sel.val.type),
              field |-> dstField, hydrated |-> hydrating]
        ELSE IF ~AssignableTo(h.val.type, dstField.type)
        THEN [err |-> NewMergeFieldError("ErrFieldTypesIncompatible",
                                         STagString(tag), dstField.type,
                                         h.val.type),
              field |-> dstField, hydrated |-> hydrating]
        ELSE [err |-> NoErr, field |-> h.val, hydrated |-> hydrating]

\* mergeField: [err, field, hydrated], field being dstField after the call
\* and hydrated whether vtypes.Hydrate was invoked.
mergeField(dstField, srcVal, tag) ==
    IF Len(tag.pathsParts) = 0
    THEN [err |-> NewMergeFieldError("ErrTagEmpty", <<>>, dstField.type, ""),
          field |-> dstField, hydrated |-> FALSE]
    ELSE assignSelected(dstField, tag, Select(srcVal, tag, 1, Invalid))

-----------------------------------------------------------------------------
(* The destination types and the sources of the model *)

\* One destination field: its name, whether it carries an smap tag, the tag,
\* the zero value of its type and a value a caller may have stored in it.
Field(name, hasTag, tag, zero, old) ==
    [name |-> name, hasTag |-> hasTag, tag |-> tag, zero |-> zero, old |-> old]

StrField(name, tag) == Field(name, TRUE, tag, StrV(""), StrV("old"))

IntField(name, tag) == Field(name, TRUE, tag, IntV(0), IntV(9))

PtrField(name, tag) ==
    Field(name, TRUE, tag, NilPtrV("*string"), PtrV("*string", StrV("old")))

Untagged(name) == Field(name, FALSE, <<>>, StrV(""), StrV("old"))

TagURL == <<"EV", ".", "AISvcURL", "|", "FV", ".", "Service", ".", "URL">>

TagCount == <<"EV", ".", "Count", "|", "FV", ".", "Count", ",", "skipzero">>

\* The destination struct types, after the Config types of the tests.
DstTypes ==
    [ Config |->
        << StrField("AISvcURL", TagURL),
           StrField("Extra", <<"FV", ".", "Extra">>),
           Untagged("NoTag") >>,
      ConfigThree |->
        << StrField("URL", <<"FV", ".", "Extra", "|", "EV", ".", "AISvcURL",
                             "|", "|", "FV", ".", "Service", ".", "URL">>) >>,
      ConfigMismatch |->
        << StrField("AISvcURL", <<"EV", ".", "AISvcURL">>),
           IntField("Extra", <<"FV", ".", "Extra">>),
           IntField("Count", <<"FV", ".", "Count">>) >>,
      ConfigEmptyTag |->
        << IntField("Count", <<"EV", ".", "Count">>),
           StrField("Empty", <<>>),
           StrField("Extra", <<"FV", ".", "Extra">>) >>,
      ConfigBadTag |->
        << StrField("Extra", <<"FV", ".", "Extra">>),
           StrField("Bad", <<"EV", ".", "AISvcURL", "|", "Foo", ".", ".", "Bar">>),
           IntField("Count", <<"FV", ".", "Count">>) >>,
      ConfigNilPath |->
        << StrField("NilPath", <<"EV", ".", "Nil", ".", "URL">>),
           IntField("Count", <<"FV", ".", "Count">>) >>,
      ConfigMap |->
        << StrField("Value", <<"EV", ".", "Data", ".", "key">>),
           StrField("Extra", <<"FV", ".", "Extra">>) >>,
      ConfigSkipZero |->
        << IntField("Count", TagCount),
           StrField("URL", TagURL \o <<",", " ", "skipzero">>) >>,
      ConfigPointer |->
        << PtrField("URL", <<"EV", ".", "PP", "|", "FV", ".", "URL">>),
           StrField("Extra", <<"FV", ".", "Extra">>) >>,
      ConfigNotFound |->
        << StrField("Extra", <<"FV", ".", "Extra">>),
           StrField("Missing", <<"FV", ".", "Service", ".", "URL", "|",
                                 "EV", ".", "Missing">>),
           IntField("Count", <<"FV", ".", "Count">>) >>,
      ConfigMethod |->
        << StrField("Value", <<"EV", ".", "GetValue">>),
           StrField("Fail", <<"EV", ".", "GetValueErr", "|", "FV", ".", "Extra">>),
           StrField("Extra", <<"FV", ".", "Extra">>) >>,
      ConfigHydrate |->
        << IntField("Num", <<"EV", ".", "Count", ",", "hydrate">>),
           Untagged("NoTag"),
           IntField("Count", <<"FV", ".", "Extra", ",", "hydrate">>),
           StrField("URL", <<"EV", ".", "AISvcURL">>) >>,
      ConfigTerminal |->
        << StrField("Extra", <<"FV", ".", "Extra">>),
           StrField("Both", <<"FV", ".", "Extra", "|", "EV", ".", "GetValueErr",
                              "|", "EV", ".", "Missing", "|", "FV", ".", "Extra">>) >> ]

NumField(t) == Len(DstTypes[t])

\* newSTag's result for the tag of each field of each destination type: the
\* tags of a type never change, so mergeFields gets the same result from
\* newSTag each time it comes to the field.
ParsedOf ==
    [t \in DOMAIN DstTypes |->
        [k \in 1..NumField(t) |-> newSTag(DstTypes[t][k].tag)]]

\* The settings of an EnvVars in the model: AISvcURL, Count, which key Data
\* holds ("" for a nil map) and whether PP is set.
EnvVarsProfiles ==
    { <<"", 0, "", FALSE>>, <<"env-url", 7, "key", TRUE>>,
      <<"env-url", 0, "other", FALSE>> }

\* The zero-argument methods of *EnvVars: GetValue returns one value,
\* GetValueErr a value and an error that is not nil.
EnvVarsMethods ==
    { [name |-> "GetValue", ptrRecv |-> TRUE, out |-> StrV("method value"),
       err |-> "nil"],
      [name |-> "GetValueErr", ptrRecv |-> TRUE, out |-> StrV(""),
       err |-> "method error"] }

\* The EnvVars values of the model; Nil is never set.
EnvVarsValues ==
    { StructV("EnvVars",
              [AISvcURL |-> StrV(p[1]), Count |-> IntV(p[2]),
               Nil |-> NilPtrV("*struct{URL}"),
               Data |-> IF p[3] = ""
                        THEN MapV("map[string]string", "string", TRUE, {})
                        ELSE MapV("map[string]string", "string", FALSE,
                                  {[k |-> p[3], v |-> StrV("value")]}),
               PP |-> IF p[4]
                      THEN PtrV("**string", PtrV("*string", StrV("p")))
                      ELSE NilPtrV("**string")],
              EnvVarsMethods) : p \in EnvVarsProfiles }

\* The settings of a FileVals in the model: Service.URL, Count and Extra.
FileValsProfiles ==
    { <<"", 0, "file-extra">>, <<"file-url", 42, "42">>,
      <<"", 42, "42">> }

\* The FileVals values of the model; URL is never set, Service has an
\* unexported field url besides URL, and Users holds two names.
FileValsValues ==
    { StructV("FileVals",
              [Service |-> StructV("struct{URL}",
                                   [URL |-> StrV(p[1]), url |-> StrV("hidden")],
                                   {}),
               Count |-> IntV(p[2]), Extra |-> StrV(p[3]),
               URL |-> NilPtrV("*string"),
               Users |-> SliceV("[]string", FALSE, <<StrV("zero"), StrV("one")>>)],
              {}) : p \in FileValsProfiles }

\* The Sources structs: EV and FV each unset or set.
SourcesValues ==
    { StructV("Sources", [EV |-> ev, FV |-> fv], {}) :
        ev \in {NilPtrV("*EnvVars")} \cup {PtrV("*EnvVars", e) : e \in EnvVarsValues},
        fv \in {NilPtrV("*FileVals")} \cup {PtrV("*FileVals", f) : f \in FileValsValues} }

\* The src arguments: a Sources struct or a pointer to one, and the handles
\* makeSrcValue rejects.
BadSrcArgs ==
    { Invalid, NilPtrV("*Sources"), IntV(7),
      PtrV("*int", IntV(7)),
      PtrV("**Sources", PtrV("*Sources", StructV("Sources",
            [EV |-> NilPtrV("*EnvVars"), FV |-> NilPtrV("*FileVals")], {}))) }

SrcArgs ==
    SourcesValues
      \cup {PtrV("*Sources", s) : s \in {v \in SourcesValues : IsZeroV(v.fields.EV)}}
      \cup BadSrcArgs

\* The dst arguments, by name: "ptr" is a pointer to the caller's struct.
DstArgNames == {"ptr", "nilptr", "struct", "ptrint", "nil"}

\* The caller's destination struct as a value.
DstStruct(t, d) == StructV(t, d, {})

\* The dst argument named a, for the caller's struct d of type t.
DstArgValue(a, t, d) ==
    CASE a = "ptr"    -> PtrV("*" \o t, DstStruct(t, d))
      [] a = "nilptr" -> NilPtrV("*" \o t)
      [] a = "struct" -> DstStruct(t, d)
      [] a = "ptrint" -> PtrV("*int", IntV(7))
      [] a = "nil"    -> Invalid

-----------------------------------------------------------------------------
(* Merge and mergeFields *)

\* No second destination: one caller only.
NoSecond ==
    /\ dst2 = <<>>
    /\ pc2 = "none"
    /\ i2 = 0
    /\ err2 = [child |-> "nil", wrapped |-> FALSE, TagValue |-> <<>>,
               DstTypeName |-> "", SrcTypeName |-> ""]
    /\ pre2 = <<>>

\* lookUpField is not called on its own.
NoLook ==
    /\ lookPath = <<>>
    /\ lookRes = Failed("nil")

\* newSTag has not run yet.
NoTagRes == [err |-> "nil", tag |-> NilTag]

\* Merge's srcVal: what makeSrcValue made of the src argument.
SrcVal == makeSrcValue(srcArg).val

\* The destinations a caller may hand over: all fields zero, or all set.
DstValues(t) ==
    { [k \in 1..NumField(t) |-> DstTypes[t][k].zero],
      [k \in 1..NumField(t) |-> DstTypes[t][k].old] }

\* The argument pairs of the model's calls: the caller's struct by pointer
\* with every src argument, and every other dst argument with a few.
CallArgs ==
    ({"ptr"} \X SrcArgs)
      \cup ((DstArgNames \ {"ptr"}) \X
                {NilPtrV("*Sources"),
                 StructV("Sources", [EV |-> NilPtrV("*EnvVars"),
                                     FV |-> NilPtrV("*FileVals")], {})})

Init ==
    /\ dstT \in DOMAIN DstTypes
    /\ dst \in DstValues(dstT)
    /\ dstArg = "ptr"
    /\ srcArg = Invalid
    /\ pc = "idle"
    /\ i = 0
    /\ err = NoErr
    /\ prevErr = NoErr
    /\ pre = dst
    /\ calls = 0
    /\ rawTag = <<>>
    /\ tagRes = NoTagRes
    /\ hydrated = {}
    /\ NoSecond
    /\ NoLook

\* Merge(dst, src) up to the call of mergeFields: both handles are validated,
\* dst first.
Call ==
    /\ pc \in {"idle", "done"}
    /\ calls < MaxCalls
    /\ \E args \in CallArgs :
         LET a  == args[1]
             s  == args[2]
             d  == makeDstValue(DstArgValue(a, dstT, dst))
             sv == makeSrcValue(s)
         IN  /\ dstArg' = a
             /\ srcArg' = s
             /\ IF d.err # "nil"
                THEN pc' = "done" /\ err' = Sentinel(d.err) /\ i' = 0
                ELSE IF sv.err # "nil"
                THEN pc' = "done" /\ err' = Sentinel(sv.err) /\ i' = 0
                ELSE pc' = "fields" /\ err' = NoErr /\ i' = 1
    /\ prevErr' = err
    /\ pre' = dst
    /\ calls' = calls + 1
    /\ rawTag' = <<>>
    /\ tagRes' = NoTagRes
    /\ hydrated' = {}
    /\ UNCHANGED <<dstT, dst>>
    /\ UNCHANGED second
    /\ UNCHANGED look

\* What mergeFields' loop does with mergeField's result m for field k: it
\* returns a non-nil error, and goes on with the next field otherwise.
afterMergeField(d, k, m) ==
    IF m.err # NoErr
    THEN [ret |-> TRUE, err |-> m.err, dst |-> d, hydrated |-> m.hydrated]
    ELSE [ret |-> FALSE, err |-> NoErr, dst |-> [d EXCEPT ![k] = m.field],
          hydrated |-> m.hydrated]

\* A mergeFields that goes on with the next field after a failed one.
mergeFieldsStepKeepGoing(t, d, sv, k) ==
    LET field == DstTypes[t][k]
        parsed == ParsedOf[t][k]
        m == mergeField(d[k], sv, parsed.tag)
    IN  IF ~field.hasTag \/ parsed.err # "nil" \/ m.err # NoErr
        THEN [ret |-> FALSE, err |-> NoErr, dst |-> d, hydrated |-> FALSE]
        ELSE [ret |-> FALSE, err |-> NoErr, dst |-> [d EXCEPT ![k] = m.field],
              hydrated |-> m.hydrated]

\* A mergeFields that returns mergeField's result for the first tagged field,
\* nil or not.
mergeFieldsStepReturnsFirst(t, d, sv, k) ==
    LET field == DstTypes[t][k]
        parsed == ParsedOf[t][k]
        m == mergeField(d[k], sv, parsed.tag)
    IN  IF ~field.hasTag
        THEN [ret |-> FALSE, err |-> NoErr, dst |-> d, hydrated |-> FALSE]
        ELSE IF parsed.err # "nil"
        THEN [ret |-> TRUE, err |-> Sentinel(parsed.err), dst |-> d,
              hydrated |-> FALSE]
        ELSE IF m.err # NoErr
        THEN [ret |-> TRUE, err |-> m.err, dst |-> d, hydrated |-> m.hydrated]
        ELSE [ret |-> TRUE, err |-> NoErr, dst |-> [d EXCEPT ![k] = m.field],
              hydrated |-> m.hydrated]

\* A mergeFields that clears each tagged field before merging into it.
mergeFieldsStepResetFirst(t, d, sv, k) ==
    LET field == DstTypes[t][k]
        parsed == ParsedOf[t][k]
        m == mergeField(field.zero, sv, parsed.tag)
    IN  IF ~field.hasTag
        THEN [ret |-> FALSE, err |-> NoErr, dst |-> d, hydrated |-> FALSE]
        ELSE IF parsed.err # "nil"
        THEN [ret |-> TRUE, err |-> Sentinel(parsed.err), dst |-> d,
              hydrated |-> FALSE]
        ELSE IF m.err # NoErr
        THEN [ret |-> TRUE, err |-> m.err, dst |-> d, hydrated |-> m.hydrated]
        ELSE [ret |-> FALSE, err |-> NoErr, dst |-> [d EXCEPT ![k] = m.field],
              hydrated |-> m.hydrated]

\* A mergeFields that does not look at whether the field has the smap key:
\* a field without it is handled as one tagged "".
mergeFieldsStepNoLookup(t, d, sv, k) ==
    LET field == DstTypes[t][k]
        parsed == ParsedOf[t][k]
        m == mergeField(d[k], sv, parsed.tag)
    IN  IF parsed.err # "nil"
        THEN [ret |-> TRUE, err |-> Sentinel(parsed.err), dst |-> d,
              hydrated |-> FALSE]
        ELSE IF m.err # NoErr
        THEN [ret |-> TRUE, err |-> m.err, dst |-> d, hydrated |-> m.hydrated]
        ELSE [ret |-> FALSE, err |-> NoErr, dst |-> [d EXCEPT ![k] = m.field],
              hydrated |-> m.hydrated]

\* A mergeFields that reads the tag with Get and skips the field when the
\* tag is "", present or not.
mergeFieldsStepSkipsEmpty(t, d, sv, k) ==
    LET field == DstTypes[t][k]
        parsed == ParsedOf[t][k]
        m == mergeField(d[k], sv, parsed.tag)
    IN  IF ~field.hasTag \/ field.tag = <<>>
        THEN [ret |-> FALSE, err |-> NoErr, dst |-> d, hydrated |-> FALSE]
        ELSE IF parsed.err # "nil"
        THEN [ret |-> TRUE, err |-> Sentinel(parsed.err), dst |-> d,
              hydrated |-> FALSE]
        ELSE IF m.err # NoErr
        THEN [ret |-> TRUE, err |-> m.err, dst |-> d, hydrated |-> m.hydrated]
        ELSE [ret |-> FALSE, err |-> NoErr, dst |-> [d EXCEPT ![k] = m.field],
              hydrated |-> m.hydrated]

\* A mergeFields that only fills the fields that are unset: a tagged field
\* that already has a value makes it return ErrDstInvalid.
mergeFieldsStepFillOnly(t, d, sv, k) ==
    LET field == DstTypes[t][k]
        parsed == ParsedOf[t][k]
    IN  IF ~field.hasTag
        THEN [ret |-> FALSE, err |-> NoErr, dst |-> d, hydrated |-> FALSE]
        ELSE IF parsed.err # "nil"
        THEN [ret |-> TRUE, err |-> Sentinel(parsed.err), dst |-> d,
              hydrated |-> FALSE]
        ELSE IF ~IsZeroV(d[k])
        THEN [ret |-> TRUE, err |-> Sentinel("ErrDstInvalid"), dst |-> d,
              hydrated |-> FALSE]
        ELSE afterMergeField(d, k, mergeField(d[k], sv, parsed.tag))

\* One iteration of mergeFields' loop, for field k of the destination d of
\* type t: whether mergeFields returns, with which error, and the destination.
mergeFieldsStep(t, d, sv, k) ==
    LET field == DstTypes[t][k]
        parsed == ParsedOf[t][k]
    IN  IF ~field.hasTag
        THEN [ret |-> FALSE, err |-> NoErr, dst |-> d, hydrated |-> FALSE]
        ELSE IF parsed.err # "nil"
        THEN [ret |-> TRUE, err |-> Sentinel(parsed.err), dst |-> d,
              hydrated |-> FALSE]
        ELSE afterMergeField(d, k, mergeField(d[k], sv, parsed.tag))

\* A loop body that starts over from the first field after a field that did
\* not make mergeFields return.
FieldStepStartsOver ==
    /\ pc = "fields"
    /\ i <= NumField(dstT)
    /\ \E r \in {mergeFieldsStep(dstT, dst, SrcVal, i)},
          field \in {DstTypes[dstT][i]} :
           /\ dst' = r.dst
           /\ err' = r.err
           /\ pc' = IF r.ret THEN "done" ELSE "fields"
           /\ i' = IF r.ret THEN i ELSE 1
           /\ rawTag' = IF field.hasTag THEN field.tag ELSE rawTag
           /\ tagRes' = IF field.hasTag THEN ParsedOf[dstT][i] ELSE tagRes
           /\ hydrated' = IF r.hydrated THEN hydrated \cup {i} ELSE hydrated
    /\ UNCHANGED <<dstT, dstArg, srcArg, prevErr, pre, calls>>
    /\ UNCHANGED second
    /\ UNCHANGED look

\* mergeFields' loop body for field i.
FieldStep ==
    /\ pc = "fields"
    /\ i <= NumField(dstT)
    /\ \E r \in {mergeFieldsStep(dstT, dst, SrcVal, i)},
          field \in {DstTypes[dstT][i]} :
           /\ dst' = r.dst
           /\ err' = r.err
           /\ pc' = IF r.ret THEN "done" ELSE "fields"
           /\ i' = IF r.ret THEN i ELSE i + 1
           /\ rawTag' = IF field.hasTag THEN field.tag ELSE rawTag
           /\ tagRes' = IF field.hasTag THEN ParsedOf[dstT][i] ELSE tagRes
           /\ hydrated' = IF r.hydrated THEN hydrated \cup {i} ELSE hydrated
    /\ UNCHANGED <<dstT, dstArg, srcArg, prevErr, pre, calls>>
    /\ UNCHANGED second
    /\ UNCHANGED look

\* mergeFields' loop ends: Merge returns nil.
Return ==
    /\ pc = "fields"
    /\ i > NumField(dstT)
    /\ pc' = "done"
    /\ err' = NoErr
    /\ UNCHANGED <<dstT, dst, dstArg, srcArg, i, prevErr, pre, calls, rawTag, tagRes,
                   hydrated>>
    /\ UNCHANGED second
    /\ UNCHANGED look

Next == Call \/ FieldStep \/ Return

Spec == Init /\ [][Next]_vars

\* Merge is synchronous: once called, its loop runs on until it returns.
\* Whether a caller calls Merge again is up to the caller.
Fairness == WF_vars(FieldStep) /\ WF_vars(Return)

\* The first Merge call of a caller who makes no other.
FirstCall == calls = 0 /\ Call

NextLive == FirstCall \/ FieldStep \/ Return

SpecLive == Init /\ [][NextLive]_vars /\ Fairness

-----------------------------------------------------------------------------
(* The parser on its own: newSTag applied to every short tag *)

\* The symbols of the enumerated tags.
Alphabet == {"A", "B", ".", "|", ",", " ", "skipzero"}

\* Every tag of at most MaxTagLen symbols, and the tags of the model's
\* destination types and of the parser's tests.
Tags ==
    UNION {[1..n -> Alphabet] : n \in 0..MaxTagLen}
      \cup UNION {{DstTypes[t][k].tag : k \in 1..NumField(t)} :
                     t \in DOMAIN DstTypes}

InitTag ==
    /\ dstT = "Config"
    /\ dst = [k \in 1..NumField("Config") |-> DstTypes["Config"][k].zero]
    /\ dstArg = "ptr"
    /\ srcArg = Invalid
    /\ pc = "tag"
    /\ i = 0
    /\ err = NoErr
    /\ prevErr = NoErr
    /\ pre = dst
    /\ calls = 0
    /\ rawTag \in Tags
    /\ tagRes = NoTagRes
    /\ hydrated = {}
    /\ NoSecond
    /\ NoLook

\* newSTag(rawTag)
ParseTag ==
    /\ pc = "tag"
    /\ tagRes' = newSTag(rawTag)
    /\ pc' = "parsed"
    /\ UNCHANGED <<dstT, dst, dstArg, srcArg, i, err, prevErr, pre, calls, rawTag,
                   hydrated>>
    /\ UNCHANGED second
    /\ UNCHANGED look

NextTag == ParseTag

SpecTag == InitTag /\ [][NextTag]_vars

-----------------------------------------------------------------------------
(* Two Merge calls at once: distinct destinations, one source *)

\* The src arguments makeSrcValue accepts.
GoodSrcArgs == {s \in SrcArgs : makeSrcValue(s).err = "nil"}

\* Two callers have each called Merge with a pointer to a struct of their
\* own and the same src; both calls are past the validation of the handles.
InitPair ==
    /\ dstT \in DOMAIN DstTypes
    /\ dst \in DstValues(dstT)
    /\ dst2 \in DstValues(dstT)
    /\ dstArg = "ptr"
    /\ srcArg \in GoodSrcArgs
    /\ pc = "fields" /\ pc2 = "fields"
    /\ i = 1 /\ i2 = 1
    /\ err = NoErr /\ err2 = NoErr
    /\ prevErr = NoErr
    /\ pre = dst /\ pre2 = dst2
    /\ calls = 1
    /\ rawTag = <<>>
    /\ tagRes = NoTagRes
    /\ hydrated = {}
    /\ NoLook

\* A second call whose loop index is the first call's: the index kept in a
\* variable of the package instead of a local one.
FieldStep2SharedIndex ==
    /\ pc2 = "fields"
    /\ i <= NumField(dstT)
    /\ \E r \in {mergeFieldsStep(dstT, dst2, SrcVal, i)} :
           /\ dst2' = r.dst
           /\ err2' = r.err
           /\ pc2' = IF r.ret THEN "done" ELSE "fields"
           /\ i' = IF r.ret THEN i ELSE i + 1
    /\ UNCHANGED <<dstT, dst, dstArg, srcArg, pc, i2, err, prevErr, pre, calls,
                   rawTag, tagRes, hydrated, pre2, lookPath, lookRes>>

\* mergeFields' loop body for field i2 in the call on dst2.
FieldStep2 ==
    /\ pc2 = "fields"
    /\ i2 <= NumField(dstT)
    /\ \E r \in {mergeFieldsStep(dstT, dst2, SrcVal, i2)} :
           /\ dst2' = r.dst
           /\ err2' = r.err
           /\ pc2' = IF r.ret THEN "done" ELSE "fields"
           /\ i2' = IF r.ret THEN i2 ELSE i2 + 1
    /\ UNCHANGED <<dstT, dst, dstArg, srcArg, pc, i, err, prevErr, pre, calls,
                   rawTag, tagRes, hydrated, pre2, lookPath, lookRes>>

\* mergeFields' loop ends in the call on dst2: it returns nil.
Return2 ==
    /\ pc2 = "fields"
    /\ i2 > NumField(dstT)
    /\ pc2' = "done"
    /\ err2' = NoErr
    /\ UNCHANGED <<dstT, dst, dstArg, srcArg, pc, i, err, prevErr, pre, calls,
                   rawTag, tagRes, hydrated, dst2, i2, pre2,
                   lookPath, lookRes>>

NextPair == FieldStep \/ Return \/ FieldStep2 \/ Return2

SpecPair == InitPair /\ [][NextPair]_vars

-----------------------------------------------------------------------------
(* The resolver on its own: lookUpField applied to every short path *)

\* The segments of the enumerated paths: names of fields, exported or not,
\* of a method, of no member at all, and indexes.
Segments ==
    { <<"EV">>, <<"FV">>, <<"Service">>, <<"URL">>, <<"url">>, <<"Users">>,
      <<"1">>, <<"2">>, <<"Missing">>, <<"GetValueErr">> }

\* Every path of at most MaxPathLen segments, the path without segments too.
Paths == UNION {[1..n -> Segments] : n \in 0..MaxPathLen}

\* The values lookUpField is called on: Sources structs with EV and FV each
\* unset or set, and pointers to some of them.
LookSources ==
    LET structs == {s \in SourcesValues :
                      /\ s.fields.EV.isNil \/ ~s.fields.EV.elem.fields.PP.isNil
                      /\ s.fields.FV.isNil
                           \/ s.fields.FV.elem.fields.Count = IntV(0)}
    IN  structs \cup {PtrV("*Sources", s) : s \in {v \in structs : v.fields.EV.isNil}}

InitLookUp ==
    /\ dstT = "Config"
    /\ dst = [k \in 1..NumField("Config") |-> DstTypes["Config"][k].zero]
    /\ dstArg = "ptr"
    /\ srcArg \in LookSources
    /\ pc = "lookup"
    /\ i = 0
    /\ err = NoErr
    /\ prevErr = NoErr
    /\ pre = dst
    /\ calls = 0
    /\ rawTag = <<>>
    /\ tagRes = NoTagRes
    /\ hydrated = {}
    /\ NoSecond
    /\ lookPath \in Paths
    /\ lookRes = Failed("nil")

\* lookUpField(srcArg, lookPath)
LookUp ==
    /\ pc = "lookup"
    /\ lookRes' = lookUpField(srcArg, lookPath)
    /\ pc' = "looked"
    /\ UNCHANGED <<dstT, dst, dstArg, srcArg, i, err, prevErr, pre, calls, rawTag,
                   tagRes, hydrated, lookPath>>
    /\ UNCHANGED second

NextLookUp == LookUp

SpecLookUp == InitLookUp /\ [][NextLookUp]_vars

-----------------------------------------------------------------------------
(* What the properties speak of *)

\* The path alternatives a raw tag names, in tag order: the non-empty pieces
\* between "|" of what precedes the first ",", each cut at ".".
TagAlternatives(raw) ==
    LET pieces == SelectSeq(Split(TrimSpace(SplitN2(raw, ",")[1]), "|"),
                            LAMBDA x : x # <<>>)
    IN  [k \in 1..Len(pieces) |-> Split(pieces[k], ".")]

\* The options a raw tag names.
TagOptions(raw) ==
    LET parts == SplitN2(raw, ",")
        opts  == IF Len(parts) > 1 THEN Split(parts[2], ",") ELSE <<>>
    IN  {TrimSpace(opts[k]) : k \in 1..Len(opts)}

\* The alternatives and the options of the tag of every field of every
\* destination type.
AltsOf ==
    [t \in DOMAIN DstTypes |->
        [k \in 1..NumField(t) |-> TagAlternatives(DstTypes[t][k].tag)]]

OptsOf ==
    [t \in DOMAIN DstTypes |->
        [k \in 1..NumField(t) |-> TagOptions(DstTypes[t][k].tag)]]

\* The field k of the destination type carries a tag that parses.
Tagged(k) ==
    /\ DstTypes[dstT][k].hasTag
    /\ ParsedOf[dstT][k].err = "nil"

\* The outcome of alternative j of field k against the source of the call.
Outcome(k, j) == lookUpField(SrcVal, AltsOf[dstT][k][j])

\* Alternative j of field k resolved to a valid value.
Resolved(k, j) ==
    /\ Outcome(k, j).err = "nil"
    /\ IsValid(Outcome(k, j).val)
    /\ ~(Outcome(k, j).val.kind = "ptr" /\ Outcome(k, j).val.isNil)

\* Alternative j of field k is not applicable.
NotApplicable(k, j) ==
    \/ Outcome(k, j).err = "errKeepLooking"
    \/ /\ Outcome(k, j).err = "nil"
       /\ ~Resolved(k, j)

\* Alternative j of field k ends in a terminal error.
Terminal(k, j) == Outcome(k, j).err \notin {"nil", "errKeepLooking"}

AltIndexes(k) == 1..Len(AltsOf[dstT][k])

\* The alternatives of field k that yield a candidate: resolved, and not a
\* zero value under skipzero.
Candidates(k) ==
    { j \in AltIndexes(k) :
        /\ Resolved(k, j)
        /\ ~(/\ <<"skipzero">> \in OptsOf[dstT][k]
             /\ IsZeroV(Outcome(k, j).val)) }

Last(S) == CHOOSE j \in S : \A l \in S : l <= j

\* A Merge call with valid handles is past its validation.
InFields == pc \in {"fields", "done"} /\ i >= 1

\* mergeFields has gone past field k without returning.
Passed(k) == InFields /\ k < i

\* Merge returned an error from the processing of field k.
FailedAt(k) == InFields /\ pc = "done" /\ err # NoErr /\ i = k

\* Merge returned nil.
Succeeded == pc = "done" /\ err = NoErr /\ i >= 1

FieldIndexes == 1..NumField(dstT)

-----------------------------------------------------------------------------
(* Properties *)

\* C1: for a field whose tag has several alternatives and no skipzero option,
\* after a successful Merge the field equals the value of the last alternative in
\* tag order that resolved to a valid value.
LastWins ==
    Succeeded =>
        \A k \in FieldIndexes :
            ( /\ Tagged(k)
              /\ Len(AltsOf[dstT][k]) >= 2
              /\ <<"skipzero">> \notin OptsOf[dstT][k]
              /\ \E j \in AltIndexes(k) : Resolved(k, j) )
            => dst[k] = Outcome(k, Last({j \in AltIndexes(k) : Resolved(k, j)})).val

\* C1 happens: two alternatives resolved to different values and the later
\* one is in the field, which held something else before.
LastWinsWitness ==
    /\ Succeeded
    /\ \E k \in FieldIndexes :
         /\ Tagged(k)
         /\ <<"skipzero">> \notin OptsOf[dstT][k]
         /\ \E j1, j2 \in AltIndexes(k) :
              /\ j1 < j2
              /\ Resolved(k, j1) /\ Resolved(k, j2)
              /\ Outcome(k, j1).val # Outcome(k, j2).val
              /\ dst[k] = Outcome(k, j2).val
              /\ pre[k] # dst[k]

\* Every alternative of field k resolves to the zero value of its type.
AllZero(k) ==
    \A j \in AltIndexes(k) :
        /\ Outcome(k, j).err = "nil"
        /\ IsValid(Outcome(k, j).val)
        /\ IsZeroV(Outcome(k, j).val)

HasSkipZeroOption(k) == <<"skipzero">> \in OptsOf[dstT][k]

\* C2: for a skipzero field all of whose alternatives resolve to zero values,
\* Merge returns no error from it and leaves it at its pre-merge value.
SkipZeroAllZero ==
    \A k \in FieldIndexes :
        (InFields /\ Tagged(k) /\ HasSkipZeroOption(k) /\ AllZero(k))
        => /\ ~FailedAt(k)
           /\ (Passed(k) => dst[k] = pre[k])

\* C2 happens: such a field held a non-zero value before and Merge returned nil.
SkipZeroAllZeroWitness ==
    /\ Succeeded
    /\ \E k \in FieldIndexes :
         /\ Tagged(k) /\ HasSkipZeroOption(k) /\ AllZero(k)
         /\ ~IsZeroV(pre[k])
         /\ dst[k] = pre[k]

\* The alternatives of field k that resolved to a non-zero value.
NonZero(k) == {j \in AltIndexes(k) : Resolved(k, j) /\ ~IsZeroV(Outcome(k, j).val)}

\* C3: a skipzero field that mergeFields has passed equals the last
\* alternative in tag order that resolved to a non-zero value.
SkipZeroSelection ==
    \A k \in FieldIndexes :
        ( /\ Passed(k) /\ Tagged(k) /\ HasSkipZeroOption(k)
          /\ <<"hydrate">> \notin OptsOf[dstT][k]
          /\ NonZero(k) # {} )
        => dst[k] = Outcome(k, Last(NonZero(k))).val

\* C3 happens: in one field a zero alternative came before the adopted
\* non-zero one, in another after it.
SkipZeroSelectionWitness ==
    /\ Succeeded
    /\ \E k1, k2 \in FieldIndexes :
         /\ Tagged(k1) /\ HasSkipZeroOption(k1)
         /\ Tagged(k2) /\ HasSkipZeroOption(k2)
         /\ \E z \in AltIndexes(k1), n \in NonZero(k1) :
              /\ z < n /\ n = Last(NonZero(k1))
              /\ Resolved(k1, z) /\ IsZeroV(Outcome(k1, z).val)
              /\ dst[k1] = Outcome(k1, n).val /\ dst[k1] # pre[k1]
         /\ \E z \in AltIndexes(k2), n \in NonZero(k2) :
              /\ n < z /\ n = Last(NonZero(k2))
              /\ Resolved(k2, z) /\ IsZeroV(Outcome(k2, z).val)
              /\ dst[k2] = Outcome(k2, n).val /\ dst[k2] # pre[k2]

\* No alternative of field k yields a candidate, and none is a terminal error.
TotalMiss(k) ==
    /\ Candidates(k) = {}
    /\ \A j \in AltIndexes(k) : ~Terminal(k, j)

\* C4: a field none of whose alternatives yields a candidate causes no
\* error, keeps its value, and mergeFields goes on to the fields after it.
TotalMissNoError ==
    /\ \A k \in FieldIndexes :
         (InFields /\ Tagged(k) /\ TotalMiss(k))
         => /\ ~FailedAt(k)
            /\ (Passed(k) => dst[k] = pre[k])
    /\ (pc = "done" /\ i >= 1 /\ err = NoErr) => i = NumField(dstT) + 1

\* C4 happens: Merge returned nil, a field that held a value found nothing
\* and kept it, and a field declared after it was assigned.
TotalMissNoErrorWitness ==
    /\ Succeeded
    /\ \E k, l \in FieldIndexes :
         /\ k < l
         /\ Tagged(k) /\ TotalMiss(k)
         /\ ~IsZeroV(pre[k]) /\ dst[k] = pre[k]
         /\ Tagged(l) /\ dst[l] # pre[l]

\* The value a path reaches after its first n segments, going through
\* pointers, struct fields and map entries; Invalid if it does not get there.
RECURSIVE Reach(_, _, _)
Reach(v, path, n) ==
    IF n = 0 THEN v
    ELSE LET p == Reach(v, path, n - 1)
             c == IF p.kind = "ptr" /\ ~p.isNil THEN p.elem ELSE p
             seg == path[n]
         IN  CASE c.kind = "struct" /\ Len(seg) = 1 ->
                    IF seg[1] \in DOMAIN c.fields THEN c.fields[seg[1]] ELSE Invalid
               [] c.kind = "map" /\ Len(seg) = 1 ->
                    IF \E e \in c.entries : e.k = seg[1]
                    THEN (CHOOSE e \in c.entries : e.k = seg[1]).v ELSE Invalid
               [] OTHER -> Invalid

\* The path meets a nil pointer where it has a segment still to resolve.
HitsNil(v, path) ==
    \E n \in 0..(Len(path) - 1) :
        Reach(v, path, n).kind = "ptr" /\ Reach(v, path, n).isNil

\* The path has a segment that addresses a key absent from a map.
MissesKey(v, path) ==
    \E n \in 0..(Len(path) - 1) :
        LET p == Reach(v, path, n)
            c == IF p.kind = "ptr" /\ ~p.isNil THEN p.elem ELSE p
        IN  /\ c.kind = "map"
            /\ \A e \in c.entries : <<e.k>> # path[n + 1]

Alt(k, j) == AltsOf[dstT][k][j]

\* C5: an alternative that meets a nil pointer at a segment is "not
\* applicable", never an error; a field all of whose alternatives do so
\* causes no error and keeps its pre-merge value.
NilPointerNotApplicable ==
    \A k \in FieldIndexes :
        (InFields /\ Tagged(k)) =>
            /\ \A j \in AltIndexes(k) :
                 HitsNil(SrcVal, Alt(k, j)) => Outcome(k, j).err = "errKeepLooking"
            /\ (\A j \in AltIndexes(k) : HitsNil(SrcVal, Alt(k, j)))
               => /\ ~FailedAt(k)
                  /\ (Passed(k) => dst[k] = pre[k])

\* C5 happens: the tag "EV.Nil.URL" with EV set and EV.Nil nil; Merge returned
\* nil and the field still holds what the caller had put there.
NilPointerNotApplicableWitness ==
    /\ Succeeded
    /\ dstT = "ConfigNilPath"
    /\ Reach(SrcVal, Alt(1, 1), 1).kind = "ptr"
    /\ ~Reach(SrcVal, Alt(1, 1), 1).isNil
    /\ HitsNil(SrcVal, Alt(1, 1))
    /\ ~IsZeroV(pre[1])
    /\ dst[1] = pre[1]

\* C6: an alternative with a segment that addresses a key absent from a map
\* is "not applicable"; a field whose only alternative is such causes no
\* error and keeps its pre-merge value.
MissingMapKey ==
    \A k \in FieldIndexes :
        (InFields /\ Tagged(k)) =>
            /\ \A j \in AltIndexes(k) :
                 MissesKey(SrcVal, Alt(k, j)) => Outcome(k, j).err = "errKeepLooking"
            /\ (AltIndexes(k) = {1} /\ MissesKey(SrcVal, Alt(k, 1)))
               => /\ ~FailedAt(k)
                  /\ (Passed(k) => dst[k] = pre[k])

\* C6 happens: the tag "EV.Data.key" against a map that holds another key.
MissingMapKeyWitness ==
    /\ Succeeded
    /\ dstT = "ConfigMap"
    /\ MissesKey(SrcVal, Alt(1, 1))
    /\ Reach(SrcVal, Alt(1, 1), 2).kind = "map"
    /\ Reach(SrcVal, Alt(1, 1), 2).entries # {}
    /\ ~IsZeroV(pre[1])
    /\ dst[1] = pre[1]

\* The dst argument is a non-nil pointer to a struct.
DstArgValid == dstArg = "ptr"

\* The src argument is a struct once at most one pointer level is removed,
\* and is no nil pointer.
SrcArgValid ==
    \/ srcArg.kind = "struct"
    \/ srcArg.kind = "ptr" /\ ~srcArg.isNil /\ srcArg.elem.kind = "struct"

\* C7: Merge returns ErrDstInvalid for a dst that is no non-nil pointer to a
\* struct and ErrSrcInvalid for a src that is a nil pointer or no struct
\* after one pointer level; no field is processed or modified then.
HandleValidation ==
    (calls >= 1) =>
        /\ ~DstArgValid
           => pc = "done" /\ err = Sentinel("ErrDstInvalid") /\ dst = pre /\ i = 0
        /\ (DstArgValid /\ ~SrcArgValid)
           => pc = "done" /\ err = Sentinel("ErrSrcInvalid") /\ dst = pre /\ i = 0

\* C7 happens: a nil *Sources handed to Merge with a valid destination whose
\* fields an earlier call had assigned.
HandleValidationWitness ==
    /\ pc = "done"
    /\ calls = 2
    /\ dstArg = "ptr"
    /\ srcArg = NilPtrV("*Sources")
    /\ err = Sentinel("ErrSrcInvalid")
    /\ \E k \in FieldIndexes : dst[k] \notin {DstTypes[dstT][k].zero, DstTypes[dstT][k].old}

\* The value the candidates of field k give it: the last candidate's,
\* hydrated when the tag asks for it and the value is a string.
AdoptedValue(k) ==
    LET v == Outcome(k, Last(Candidates(k))).val
    IN  IF <<"hydrate">> \in OptsOf[dstT][k] /\ v.kind = "string"
        THEN Hydrate(DstTypes[dstT][k].zero.type, v.s)
        ELSE Found(v)

\* The terminal error the processing of field k ends in, "nil" if none: a
\* tag that does not parse, an alternative that fails, a failed hydration
\* or a value of another type than the field's.
FieldError(k) ==
    LET f == DstTypes[dstT][k]
    IN  IF ~f.hasTag THEN "nil"
        ELSE IF ParsedOf[dstT][k].err # "nil" THEN ParsedOf[dstT][k].err
        ELSE IF \E j \in AltIndexes(k) : Terminal(k, j)
        THEN Outcome(k, CHOOSE j \in AltIndexes(k) :
                            /\ Terminal(k, j)
                            /\ \A l \in 1..(j - 1) : ~Terminal(k, l)).err
        ELSE IF Candidates(k) = {} THEN "nil"
        ELSE IF AdoptedValue(k).err # "nil" THEN AdoptedValue(k).err
        ELSE IF AdoptedValue(k).val.type # f.zero.type
        THEN "ErrFieldTypesIncompatible"
        ELSE "nil"

\* The value field k has once it is processed without error.
Expected(k) ==
    IF ~DstTypes[dstT][k].hasTag \/ Candidates(k) = {} THEN pre[k]
    ELSE AdoptedValue(k).val

\* C8: fields are processed in declaration order; Merge returns the first
\* terminal error at once; the fields before the failing one keep what Merge
\* assigned, the failing one and those after it their pre-merge values.
FailFast ==
    InFields =>
        /\ \A k \in FieldIndexes :
             /\ k >= i => dst[k] = pre[k]
             /\ k < i  => FieldError(k) = "nil" /\ dst[k] = Expected(k)
        /\ (pc = "done" /\ err # NoErr) =>
             /\ i \in FieldIndexes
             /\ err.child = FieldError(i)
        /\ (pc = "done" /\ err = NoErr) => i = NumField(dstT) + 1

\* C8 happens: Merge returned a type error from the second field; the first
\* holds what Merge assigned, the third was not reached although the source
\* has a value for it.
FailFastWitness ==
    /\ pc = "done"
    /\ dstT = "ConfigMismatch"
    /\ i = 2
    /\ err.child = "ErrFieldTypesIncompatible"
    /\ dst[1] # pre[1] /\ dst[1] = Expected(1)
    /\ dst[2] = pre[2]
    /\ dst[3] = pre[3]
    /\ FieldError(3) = "nil" /\ Expected(3) # pre[3]

\* C9: after two successful merges in a row each tagged field holds the
\* value the second source gives it if that source yields a candidate, and
\* what it held after the first merge otherwise.
SparseOverlay ==
    (calls >= 2 /\ Succeeded /\ prevErr = NoErr) =>
        \A k \in FieldIndexes :
            DstTypes[dstT][k].hasTag =>
                dst[k] = IF Candidates(k) # {} THEN AdoptedValue(k).val ELSE pre[k]

\* C9 happens: the second merge found nothing for a field the first had
\* assigned, which keeps that value, and overwrote another field.
SparseOverlayWitness ==
    /\ calls = 2 /\ Succeeded /\ prevErr = NoErr
    /\ \E k, l \in FieldIndexes :
         /\ Tagged(k) /\ Candidates(k) = {}
         /\ pre[k] \notin {DstTypes[dstT][k].zero, DstTypes[dstT][k].old}
         /\ dst[k] = pre[k]
         /\ Tagged(l) /\ Candidates(l) # {}
         /\ dst[l] = AdoptedValue(l).val /\ dst[l] # pre[l]
         /\ pre[l] \notin {DstTypes[dstT][l].zero, DstTypes[dstT][l].old}

\* What precedes the first "," of a raw tag, without the blanks around it.
PathsPart(raw) == TrimSpace(SplitN2(raw, ",")[1])

\* A non-empty alternative of the raw tag has an empty segment: a "." that
\* begins or ends an alternative or follows another ".".
HasEmptySegment(raw) ==
    LET P == PathsPart(raw)
    IN  \E k \in 1..Len(P) :
            /\ P[k] = "."
            /\ \/ k = 1
               \/ k = Len(P)
               \/ P[k - 1] \in {".", "|"}
               \/ P[k + 1] \in {".", "|"}

\* C10: newSTag fails with ErrTagEmpty on "", "|" and "||", and with
\* ErrTagInvalid on every tag one of whose alternatives has an empty
\* segment; with an error it returns no tag.
MalformedTagDetection ==
    pc = "parsed" =>
        /\ rawTag \in {<<>>, <<"|">>, <<"|", "|">>}
           => tagRes.err = "ErrTagEmpty"
        /\ HasEmptySegment(rawTag) => tagRes.err = "ErrTagInvalid"
        /\ tagRes.err # "nil" => tagRes.tag = NilTag

\* C10 happens: "EV.AISvcURL|Foo..Bar" was parsed and rejected.
MalformedTagDetectionWitness ==
    /\ pc = "parsed"
    /\ rawTag = <<"EV", ".", "AISvcURL", "|", "Foo", ".", ".", "Bar">>
    /\ tagRes.err = "ErrTagInvalid"
    /\ tagRes.tag = NilTag

\* A paths string without its empty candidates: every "|" that begins or
\* ends the string or is followed by another "|" is taken out.
Squeeze(P) ==
    LET keep(k) ==
            \/ P[k] # "|"
            \/ /\ \E j \in 1..(k - 1) : P[j] # "|"
               /\ \E j \in (k + 1)..Len(P) : P[j] # "|"
               /\ P[k + 1] # "|"
        F[k \in 0..Len(P)] ==
            IF k = 0 THEN <<>>
            ELSE IF keep(k) THEN Append(F[k - 1], P[k]) ELSE F[k - 1]
    IN  F[Len(P)]

\* The raw tag with the paths part squeezed and the options as they are.
SqueezeTag(raw) ==
    LET parts == SplitN2(raw, ",")
    IN  Squeeze(TrimSpace(parts[1]))
          \o (IF Len(parts) > 1 THEN <<",">> \o parts[2] ELSE <<>>)

\* The raw tag has a doubled, leading or trailing "|".
HasEmptyCandidate(raw) == Squeeze(PathsPart(raw)) # PathsPart(raw)

\* No blank inside the paths part of the raw tag.
NoBlankInPaths(raw) == \A k \in 1..Len(PathsPart(raw)) : PathsPart(raw)[k] # " "

\* C11: empty candidates from doubled, leading or trailing "|" are dropped:
\* a tag parses to its non-empty candidates in tag order, and to the same
\* result as the tag without the superfluous "|".
SeparatorTolerance ==
    pc = "parsed" =>
        /\ tagRes.err = "nil" => tagRes.tag.pathsParts = TagAlternatives(rawTag)
        /\ NoBlankInPaths(rawTag) => newSTag(SqueezeTag(rawTag)) = tagRes

\* C11 happens: "A||B" was parsed to the alternatives A, B.
SeparatorToleranceWitness ==
    /\ pc = "parsed"
    /\ rawTag = <<"A", "|", "|", "B">>
    /\ HasEmptyCandidate(rawTag)
    /\ tagRes.err = "nil"
    /\ tagRes.tag.pathsParts = << <<"A">>, <<"B">> >>
    /\ newSTag(<<"A", "|", "B">>) = tagRes

\* The raw tag with a blank put before and after its paths part and around
\* each of its options.
Padded(raw) ==
    LET parts == SplitN2(raw, ",")
        opts  == IF Len(parts) > 1 THEN Split(parts[2], ",") ELSE <<>>
    IN  <<" ">> \o parts[1] \o <<" ">>
          \o (IF Len(parts) > 1
              THEN <<",">> \o Join([k \in 1..Len(opts) |->
                                       <<" ">> \o opts[k] \o <<" ">>], ",")
              ELSE <<>>)

\* Two parse results name the same alternatives and the same options.
SameExpression(a, b) ==
    /\ a.err = "nil" /\ b.err = "nil"
    /\ a.tag.pathsParts = b.tag.pathsParts
    /\ a.tag.opts = b.tag.opts

\* C12: a tag that parses, serialized with String() and parsed again, gives
\* the same alternatives and options, and so does the tag with blanks put
\* around its paths and options.
TagRoundTrip ==
    (pc = "parsed" /\ tagRes.err = "nil") =>
        /\ SameExpression(newSTag(STagString(tagRes.tag)), tagRes)
        /\ SameExpression(newSTag(Padded(rawTag)), tagRes)

\* The tag of field k carries the hydrate option.
HasHydrateOption(k) == <<"hydrate">> \in OptsOf[dstT][k]

\* The processing of field k selected a value: some alternative yields a
\* candidate and none before or after it ends in a terminal error.
Selected(k) ==
    /\ Tagged(k)
    /\ Candidates(k) # {}
    /\ \A j \in AltIndexes(k) : ~Terminal(k, j)

\* mergeFields has processed field k: gone past it or returned from it.
Processed(k) == InFields /\ (k < i \/ (pc = "done" /\ k = i))

\* C13: vtypes.Hydrate is invoked for a field exactly when its tag has the
\* hydrate option and the selected value is a string; a non-string value
\* selected under hydrate is assigned as it is.
HydrateOnlyText ==
    InFields =>
        \A k \in FieldIndexes :
            /\ k \in hydrated <=>
                 /\ Processed(k) /\ Selected(k) /\ HasHydrateOption(k)
                 /\ Outcome(k, Last(Candidates(k))).val.kind = "string"
            /\ ( /\ Passed(k) /\ Selected(k) /\ HasHydrateOption(k)
                 /\ Outcome(k, Last(Candidates(k))).val.kind # "string" )
               => dst[k] = Outcome(k, Last(Candidates(k))).val

\* C13 happens: in one Merge an int selected under hydrate was assigned
\* without a call of Hydrate, a string selected under hydrate went through
\* it, and a string selected without the option did not.
HydrateOnlyTextWitness ==
    /\ Succeeded
    /\ \E k, l, m \in FieldIndexes :
         /\ Selected(k) /\ HasHydrateOption(k)
         /\ Outcome(k, Last(Candidates(k))).val = IntV(7)
         /\ dst[k] = IntV(7) /\ pre[k] # dst[k] /\ k \notin hydrated
         /\ Selected(l) /\ HasHydrateOption(l)
         /\ Outcome(l, Last(Candidates(l))).val = StrV("42")
         /\ dst[l] = IntV(42) /\ l \in hydrated
         /\ Selected(m) /\ ~HasHydrateOption(m)
         /\ Outcome(m, Last(Candidates(m))).val.kind = "string"
         /\ dst[m] = Outcome(m, Last(Candidates(m))).val /\ m \notin hydrated

\* The value selected for field k, hydrated if need be, has another type
\* than the field.
TypeMismatch(k) ==
    /\ Selected(k)
    /\ AdoptedValue(k).err = "nil"
    /\ AdoptedValue(k).val.type # DstTypes[dstT][k].zero.type

\* C14: a selected value whose type is not assignable to the field's makes
\* Merge return an error that matches ErrFieldTypesIncompatible and carries
\* the tag, the field's type name and the value's type name; the field is
\* not assigned.
TypeIncompatibility ==
    \A k \in FieldIndexes :
        (Processed(k) /\ TypeMismatch(k)) =>
            /\ FailedAt(k)
            /\ ErrorsIs(err, "ErrFieldTypesIncompatible")
            /\ err.TagValue = STagString(ParsedOf[dstT][k].tag)
            /\ err.TagValue # <<>>
            /\ err.DstTypeName = DstTypes[dstT][k].zero.type
            /\ err.SrcTypeName = AdoptedValue(k).val.type
            /\ dst[k] = pre[k]

\* C14 happens: the string FV.Extra was selected for the int field Extra,
\* which held 9 and still does.
TypeIncompatibilityWitness ==
    /\ pc = "done"
    /\ dstT = "ConfigMismatch"
    /\ TypeMismatch(2) /\ FailedAt(2)
    /\ err.child = "ErrFieldTypesIncompatible"
    /\ err.TagValue = <<"FV", ".", "Extra">>
    /\ err.DstTypeName = "int" /\ err.SrcTypeName = "string"
    /\ pre[2] = IntV(9) /\ dst[2] = IntV(9)

\* C15: every error Merge returns from the processing of a field carries
\* the tag text, the destination type name and the source type name, and
\* matches its sentinel through errors.Is.
DiagnosableErrors ==
    \A k \in FieldIndexes :
        FailedAt(k) =>
            /\ ErrorsIs(err, FieldError(k))
            /\ err.TagValue # <<>>
            /\ err.DstTypeName # ""
            /\ err.SrcTypeName # ""

\* C16: the error a Merge call returns is never errKeepLooking, bare or
\* wrapped.
KeepLookingNeverSurfaces ==
    /\ ~ErrorsIs(err, "errKeepLooking")
    /\ ~ErrorsIs(prevErr, "errKeepLooking")

\* C16 happens: lookUpField answered errKeepLooking for an alternative of a
\* field, and Merge returned nil in one call and the error of a later
\* alternative in another.
KeepLookingNeverSurfacesWitness ==
    /\ pc = "done" /\ calls = 2
    /\ prevErr = NoErr
    /\ \E k \in FieldIndexes :
         /\ FailedAt(k)
         /\ \E j1, j2 \in AltIndexes(k) :
              /\ j1 < j2
              /\ Outcome(k, j1).err = "errKeepLooking"
              /\ Terminal(k, j2)
              /\ err.child = Outcome(k, j2).err

\* The accessors whose error ends the path: a segment that names no field of
\* the struct reached so far but a method of it that returns an error.
FailingAccessors(v, path) ==
    UNION { LET p == Reach(v, path, n - 1)
                c == IF p.kind = "ptr" /\ ~p.isNil THEN p.elem ELSE p
            IN  IF c.kind = "struct" /\ path[n][1] \notin DOMAIN c.fields
                THEN {m \in MethodsOf(p, path[n]) : m.err # "nil"}
                ELSE {}
            : n \in 1..Len(path) }

RECURSIVE RunAlone(_, _, _, _)
RunAlone(t, d, sv, k) ==
    IF k > NumField(t) THEN [err |-> NoErr, dst |-> d]
    ELSE LET r == mergeFieldsStep(t, d, sv, k)
         IN  IF r.ret THEN [err |-> r.err, dst |-> r.dst]
             ELSE RunAlone(t, r.dst, sv, k + 1)

\* C18: with two Merge calls on distinct destinations interleaved field
\* step by field step, each call ends, and at each step is on its way to
\* end, with the error and the destination it has when it runs alone.
IndependentCalls ==
    /\ pc = "fields" => RunAlone(dstT, dst, SrcVal, i) = RunAlone(dstT, pre, SrcVal, 1)
    /\ pc = "done" => [err |-> err, dst |-> dst] = RunAlone(dstT, pre, SrcVal, 1)
    /\ pc2 = "fields" => RunAlone(dstT, dst2, SrcVal, i2) = RunAlone(dstT, pre2, SrcVal, 1)
    /\ pc2 = "done" => [err |-> err2, dst |-> dst2] = RunAlone(dstT, pre2, SrcVal, 1)

\* C18 happens: both calls have assigned their first field and neither has
\* returned; the destinations began and are different.
IndependentCallsWitness ==
    /\ pc = "fields" /\ pc2 = "fields"
    /\ i = 2 /\ i2 = 2
    /\ pre # pre2
    /\ dst[1] # pre[1] /\ dst2[1] # pre2[1]
    /\ dst # dst2

\* C19: a field without the smap key keeps its value through every step of
\* a Merge, whether Merge returns nil or an error, and no error comes from
\* it.
UntaggedUntouched ==
    \A k \in FieldIndexes :
        ~DstTypes[dstT][k].hasTag =>
            /\ dst[k] = pre[k]
            /\ ~FailedAt(k)

\* C19 happens: Merge went past an untagged field that held a value,
\* assigned a field before it and returned an error from one after it.
UntaggedUntouchedWitness ==
    /\ pc = "done" /\ err # NoErr
    /\ \E j, k, l \in FieldIndexes :
         /\ j < k /\ k < l
         /\ dst[j] # pre[j]
         /\ ~DstTypes[dstT][k].hasTag
         /\ ~IsZeroV(pre[k]) /\ dst[k] = pre[k]
         /\ FailedAt(l)

\* Field k carries the smap key with the value "".
EmptyAnnotation(k) == DstTypes[dstT][k].hasTag /\ DstTypes[dstT][k].tag = <<>>

\* C20: a field tagged smap:"" is not skipped: Merge returns an error that
\* matches ErrTagEmpty from it; mergeFields goes past a field with the smap
\* key only when its tag parses.
EmptyAnnotationIsError ==
    \A k \in FieldIndexes :
        /\ (Processed(k) /\ EmptyAnnotation(k))
           => /\ FailedAt(k)
              /\ ErrorsIs(err, "ErrTagEmpty")
              /\ dst[k] = pre[k]
        /\ (Passed(k) /\ DstTypes[dstT][k].hasTag) => Tagged(k)

\* C20 happens: ConfigEmptyTag, whose second field is tagged "": Merge
\* assigned the first field and returned ErrTagEmpty from the second.
EmptyAnnotationIsErrorWitness ==
    /\ pc = "done"
    /\ dstT = "ConfigEmptyTag"
    /\ EmptyAnnotation(2) /\ FailedAt(2)
    /\ err.child = "ErrTagEmpty"
    /\ dst[1] # pre[1]
    /\ dst[2] = pre[2] /\ dst[3] = pre[3]

\* The first n segments of the path are names of exported members.
ExportedSoFar(path, n) == \A m \in 1..n : path[m][1] \notin Unexported

\* Segment n of the path is looked up in a struct, which the segments before
\* it reach through exported members, and names neither an exported field
\* nor a zero-argument method of it.
NoMember(v, path, n) ==
    LET p == Reach(v, path, n - 1)
        c == IF p.kind = "ptr" /\ ~p.isNil THEN p.elem ELSE p
    IN  /\ ExportedSoFar(path, n - 1)
        /\ c.kind = "struct"
        /\ path[n][1] \notin DOMAIN c.fields \/ path[n][1] \in Unexported
        /\ MethodsOf(p, path[n]) = {}

\* C21: in a struct, a segment that names neither an exported field nor a
\* zero-argument method makes lookUpField return no value and
\* ErrTagPathNotFound when it is the path's final segment, errKeepLooking
\* when it is not; an unexported field is no member.
RecordLookup ==
    pc = "looked" =>
        \A n \in 1..Len(lookPath) :
            NoMember(srcArg, lookPath, n) =>
                /\ ~IsValid(lookRes.val)
                /\ lookRes.err = IF n = Len(lookPath) THEN "ErrTagPathNotFound"
                                 ELSE "errKeepLooking"

\* C21 happens: "FV.Service.url" with FV set: the struct has the field url,
\* which is unexported, and lookUpField answered ErrTagPathNotFound.
RecordLookupWitness ==
    /\ pc = "looked"
    /\ lookPath = << <<"FV">>, <<"Service">>, <<"url">> >>
    /\ NoMember(srcArg, lookPath, 3)
    /\ "url" \in DOMAIN Reach(srcArg, lookPath, 2).fields
    /\ IsValid(Reach(srcArg, lookPath, 3))
    /\ lookRes = Failed("ErrTagPathNotFound")

\* C22: in a slice, a segment that is no index or is out of range makes
\* lookUpField return errKeepLooking and no value, never a terminal error; a
\* segment that is an index within range gives the element when it is the
\* final segment, and what the rest of the path gives from the element when
\* it is not.
SequenceIndexing ==
    pc = "looked" =>
        \A n \in 1..Len(lookPath) :
            LET p == Reach(srcArg, lookPath, n - 1)
                c == IF p.kind = "ptr" /\ ~p.isNil THEN p.elem ELSE p
                seg == lookPath[n]
            IN  (ExportedSoFar(lookPath, n - 1) /\ c.kind = "slice") =>
                    IF seg \in Digits /\ Atoi(seg) < Len(c.elems)
                    THEN IF n = Len(lookPath)
                         THEN lookRes = Found(c.elems[Atoi(seg) + 1])
                         ELSE lookRes =
                                lookUpField(c.elems[Atoi(seg) + 1],
                                            SubSeq(lookPath, n + 1, Len(lookPath)))
                    ELSE lookRes = Failed("errKeepLooking")

\* C22 happens: "FV.Users.2" against the two names of Users: the index is
\* out of range and lookUpField answered errKeepLooking.
SequenceIndexingWitness ==
    /\ pc = "looked"
    /\ lookPath = << <<"FV">>, <<"Users">>, <<"2">> >>
    /\ Reach(srcArg, lookPath, 2).kind = "slice"
    /\ Len(Reach(srcArg, lookPath, 2).elems) = 2
    /\ lookRes = Failed("errKeepLooking")

\* The first alternative of field k that ends in a terminal error.
FirstTerminal(k) ==
    CHOOSE j \in AltIndexes(k) :
        /\ Terminal(k, j)
        /\ \A l \in 1..(j - 1) : ~Terminal(k, l)

PointerField(k) == DstTypes[dstT][k].zero.kind = "ptr"

\* Alternative j of field k leads to a source pointer that is not set: one
\* on its way, or the one it names.
LeadsToNil(k, j) ==
    \/ HitsNil(SrcVal, Alt(k, j))
    \/ /\ Outcome(k, j).err = "nil"
       /\ Outcome(k, j).val.kind = "ptr"
       /\ Outcome(k, j).val.isNil

LookedEmpty == pc = "looked" /\ lookPath = <<>>

MergeIdempotent ==
    Succeeded =>
        RunAlone(dstT, dst, SrcVal, 1) = [err |-> NoErr, dst |-> dst]

\* C27 happens: Merge has returned nil for a Config that began unset, it
\* assigned the first field and left another as it was, and a second Merge
\* of the same source is a run of mergeFields over what the first one left.
MergeIdempotentWitness ==
    /\ Succeeded
    /\ dstT = "Config"
    /\ calls = 1
    /\ \A k \in 1..NumField(dstT) : pre[k] = DstTypes[dstT][k].zero
    /\ dst[1] # pre[1]
    /\ \E k \in 2..NumField(dstT) : Tagged(k) /\ dst[k] = pre[k]
    /\ RunAlone(dstT, dst, SrcVal, 1).err = NoErr

====
